---- MODULE Spec2Model ----
(***************************************************************************)
(* Model of sigstore-rs' SigstoreTrustRoot (src/trust/sigstore/mod.rs):    *)
(* construction (new / fetch_target: disk cache, embedded table, remote   *)
(* TUF repository, digest validation, write-through caching, parsing) and *)
(* the read-only queries of the TrustRoot trait.                          *)
(*                                                                         *)
(* Option<T> is modelled as a sequence: <<>> is None, <<x>> is Some(x).   *)
(* A byte string (file content, target, document) is a small natural      *)
(* number; 0 is the empty byte string.                                    *)
(***************************************************************************)
EXTENDS Integers, Sequences, FiniteSets, TLC

\* ------------------------------------------------------------------ bounds
\* Byte strings are 0..MaxDoc.
MaxDoc == 3
\* The clock runs from 0 to MaxTime.
MaxTime == 3
\* Number of constructions that may run against the same checkout directory.
NumProcs == 2

\* A queried document holds at most MaxLen certificate authorities, at most
\* MaxLen certificates in a chain and at most MaxLen log instances in a list.
MaxLen == 2

Procs == 1..NumProcs
\* The construction that runs alone in Spec.
Solo == {1}
Bytes == 0..MaxDoc

None == <<>>
Some(x) == <<x>>
IsSome(o) == o # <<>>
Unwrap(o) == o[1]
OptionOf(S) == {None} \cup {Some(x) : x \in S}

\* ------------------------------------------------------- external helpers
\* Sha256::digest: an injective map on the modelled byte strings (no
\* collisions), and not the identity.
Sha256(b) == (3 * b + 2) % 11

Digests == {Sha256(b) : b \in Bytes}

\* The target name new() passes to fetch_target, and the names the embedded
\* table knows.
TrustedRootName == "trusted_root.json"
TargetNames == {"trusted_root.json", "other.json"}
EmbeddedNames == {"root.json", "trusted_root.json"}

\* constants::static_resource(name): the compiled-in table holds root.json
\* and an initial trusted_root.json, and nothing else.
static_resource(n, embedded_doc) ==
    IF n \in EmbeddedNames THEN Some(embedded_doc) ELSE None

\* Results: Ok(val) / Err(err).
Ok(v) == [ok |-> TRUE, val |-> Some(v), err |-> "none"]
Err(e) == [ok |-> FALSE, val |-> None, err |-> e]

\* What one call of repository.read_target can meet on the wire.
RemoteOutcomes == {"ok", "request_failed", "stream_failed"}

\* tough::Repository::read_target(name) followed by try_collect: Err when the
\* request fails, Ok(None) when the verified metadata lists no such target,
\* otherwise a stream that fails on an I/O error or when the streamed bytes
\* do not hash to the digest of the verified metadata.
read_target(meta, outcome, served) ==
    IF outcome = "request_failed" THEN [kind |-> "Err", collected |-> Err("ToughError")]
    ELSE IF meta = None THEN [kind |-> "None", collected |-> Err("ToughError")]
    ELSE IF outcome = "stream_failed" \/ Sha256(served) # Unwrap(meta)
         THEN [kind |-> "Stream", collected |-> Err("ToughError")]
         ELSE [kind |-> "Stream", collected |-> Ok(served)]

\* Mutant: a failure while collecting the stream is reported as not found too.
read_remote_target_lossy(meta, outcome, served) ==
    LET r == read_target(meta, outcome, served) IN
    IF r.kind = "Stream" /\ r.collected.ok
    THEN r.collected
    ELSE Err("TufTargetNotFoundError")

\* The closure read_remote_target of fetch_target.
read_remote_target(meta, outcome, served) ==
    LET r == read_target(meta, outcome, served) IN
    IF r.kind = "Stream"
    THEN r.collected
    ELSE Err("TufTargetNotFoundError")

\* --------------------------------------------------- trusted-root document
TimeRange(s, e) == [start |-> s, end |-> e]
Certificate(raw) == [raw_bytes |-> raw]
CertificateAuthority(range, certs) ==
    [valid_for |-> range, cert_chain |-> Some([certificates |-> certs])]
PublicKey(raw, range) == [raw_bytes |-> raw, valid_for |-> range]
TransparencyLogInstance(key) == [public_key |-> key]

\* The TrustedRoot that the JSON text b denotes (b is well-formed).
TrustedRootOf(b) ==
    [certificate_authorities |->
        << CertificateAuthority(Some(TimeRange(Some(1), Some(b))),
                                << Certificate(10 * b + 1), Certificate(10 * b + 2) >>) >>,
     tlogs |->
        << TransparencyLogInstance(Some(PublicKey(Some(10 * b + 3),
                                                  Some(TimeRange(Some(1), None))))),
           TransparencyLogInstance(Some(PublicKey(Some(10 * b + 4),
                                                  Some(TimeRange(Some(b), None))))) >>,
     ctlogs |->
        << TransparencyLogInstance(Some(PublicKey(Some(10 * b + 5),
                                                  Some(TimeRange(Some(1), Some(b)))))),
           TransparencyLogInstance(Some(PublicKey(Some(10 * b + 6),
                                                  Some(TimeRange(Some(2), None))))) >>]

\* serde_json::from_slice::<TrustedRoot>: the empty text and every third text
\* are not a TrustedRoot document; the others parse.
from_slice(b) ==
    IF b % 3 = 0 THEN Err("SerdeJsonError") ELSE Ok(TrustedRootOf(b))

\* Mutant: the allow_expired arm is matched before the not-yet-valid arm.
is_timerange_valid_expired_first(range, allow_expired, now_s) ==
    LET start == IF IsSome(range) THEN Unwrap(range).start ELSE None
        end == IF IsSome(range) THEN Unwrap(range).end ELSE None
    IN  IF start = None THEN TRUE
        ELSE IF allow_expired THEN TRUE
        ELSE IF now_s < Unwrap(start) THEN FALSE
        ELSE IF end = None THEN TRUE
        ELSE now_s <= Unwrap(end)

\* Mutant: the end is checked whatever allow_expired says.
is_timerange_valid_end_checked(range, allow_expired, now_s) ==
    LET start == IF IsSome(range) THEN Unwrap(range).start ELSE None
        end == IF IsSome(range) THEN Unwrap(range).end ELSE None
    IN  IF start = None THEN TRUE
        ELSE IF now_s < Unwrap(start) THEN FALSE
        ELSE IF end = None THEN TRUE
        ELSE now_s <= Unwrap(end)

\* ------------------------------------------------------- validity policy
is_timerange_valid(range, allow_expired, now_s) ==
    LET start == IF IsSome(range) THEN Unwrap(range).start ELSE None
        end == IF IsSome(range) THEN Unwrap(range).end ELSE None
    IN  IF start = None THEN TRUE
        ELSE IF now_s < Unwrap(start) THEN FALSE
        ELSE IF allow_expired THEN TRUE
        ELSE IF end = None THEN TRUE
        ELSE now_s <= Unwrap(end)

RECURSIVE Concat(_)
Concat(ss) == IF ss = <<>> THEN <<>> ELSE Head(ss) \o Concat(Tail(ss))

\* filter_map over a sequence of options: the values of those that are Some.
Flatten(opts) == Concat(opts)

\* Mutant: expired keys are let through.
tlog_keys_allow_expired(tlogs, now_s) ==
    LET keys == Flatten([i \in 1..Len(tlogs) |-> tlogs[i].public_key])
        valid == SelectSeq(keys, LAMBDA key : is_timerange_valid(key.valid_for, TRUE, now_s))
    IN  Flatten([i \in 1..Len(valid) |-> valid[i].raw_bytes])

tlog_keys(tlogs, now_s) ==
    LET keys == Flatten([i \in 1..Len(tlogs) |-> tlogs[i].public_key])
        valid == SelectSeq(keys, LAMBDA key : is_timerange_valid(key.valid_for, FALSE, now_s))
    IN  Flatten([i \in 1..Len(valid) |-> valid[i].raw_bytes])

\* Mutant: the certificate authorities are filtered strictly, whatever
\* allow_expired says.
ca_keys_strict(cas, allow_expired, now_s) ==
    LET valid == SelectSeq(cas, LAMBDA ca : is_timerange_valid(ca.valid_for, FALSE, now_s))
        chains == Flatten([i \in 1..Len(valid) |-> valid[i].cert_chain])
        certs == Concat([i \in 1..Len(chains) |-> chains[i].certificates])
    IN  [i \in 1..Len(certs) |-> certs[i].raw_bytes]

ca_keys(cas, allow_expired, now_s) ==
    LET valid == SelectSeq(cas, LAMBDA ca : is_timerange_valid(ca.valid_for, allow_expired, now_s))
        chains == Flatten([i \in 1..Len(valid) |-> valid[i].cert_chain])
        certs == Concat([i \in 1..Len(chains) |-> chains[i].certificates])
    IN  [i \in 1..Len(certs) |-> certs[i].raw_bytes]

fulcio_certs(root, now_s) ==
    LET certs == ca_keys(root.certificate_authorities, TRUE, now_s) IN
    IF certs = <<>> THEN Err("TufMetadataError") ELSE Ok(certs)

rekor_keys(root, now_s) ==
    LET keys == tlog_keys(root.tlogs, now_s) IN
    IF Len(keys) # 1 THEN Err("TufMetadataError") ELSE Ok(keys)

ctfe_keys(root, now_s) ==
    LET keys == tlog_keys(root.ctlogs, now_s) IN
    IF keys = <<>> THEN Err("TufMetadataError") ELSE Ok(keys)

\* ------------------------------------------------------------------ state
VARIABLES
    checkout_dir,   \* Option<PathBuf>: the checkout directory given to new
    name,           \* the target name fetch_target is called with
    disk,           \* Option<bytes>: the file checkout_dir/name (None: no such file)
    targets_meta,   \* Option<digest>: hashes.sha256 of name in the verified targets metadata
    embedded_doc,   \* the bytes the compiled-in table holds for its names
    now,            \* chrono::Utc::now().timestamp()
    pc,             \* per construction: where it stands
    tried,          \* per construction: the sources consulted for the initial candidate, in order
    source,         \* per construction: the source that supplied the initial candidate
    candidate,      \* per construction: Option<bytes>, the first binding of `data`
    data,           \* per construction: Option<bytes>, the second binding of `data`
    refetched,      \* per construction: Option<bytes> read by the re-fetch
    ret,            \* per construction: Option<bytes>, the Ok value of fetch_target
    err,            \* per construction: the error returned, "none" if none
    failed_at,      \* per construction: the step that returned the error
    remote_kind,    \* per construction: what the latest read_target call returned
    trusted_root,   \* per construction: Option<TrustedRoot>, the instance's field
    loads,          \* per construction: calls of RepositoryLoader::load
    remote_reads,   \* per construction: calls of repository.read_target
    writes,         \* per construction: successful std::fs::write calls
    reply,          \* the result of the latest query and the time it was answered
    checked,        \* Option: the latest call of is_timerange_valid, with its result
    auth            \* Option: the latest call of auth_url, with its result

env_vars == <<checkout_dir, name, targets_meta, embedded_doc>>
aux_vars == <<checked, auth>>
run_vars == <<pc, tried, source, candidate, data, refetched, ret, err, failed_at,
              remote_kind, trusted_root, loads, remote_reads, writes>>
vars == <<checkout_dir, name, disk, targets_meta, embedded_doc, now, pc, tried, source,
          candidate, data, refetched, ret, err, failed_at, remote_kind, trusted_root,
          loads, remote_reads, writes, reply, checked, auth>>

NoReply == [op |-> "none", by |-> 0, at |-> 0, result |-> Err("none")]

Init ==
    /\ checkout_dir \in OptionOf({"checkout"})
    /\ name \in TargetNames
    /\ disk \in OptionOf(Bytes)
    /\ targets_meta \in OptionOf(Digests)
    /\ embedded_doc \in Bytes
    /\ now = 0
    /\ pc = [p \in Procs |-> "uninit"]
    /\ tried = [p \in Procs |-> <<>>]
    /\ source = [p \in Procs |-> "none"]
    /\ candidate = [p \in Procs |-> None]
    /\ data = [p \in Procs |-> None]
    /\ refetched = [p \in Procs |-> None]
    /\ ret = [p \in Procs |-> None]
    /\ err = [p \in Procs |-> "none"]
    /\ failed_at = [p \in Procs |-> "none"]
    /\ remote_kind = [p \in Procs |-> "none"]
    /\ trusted_root = [p \in Procs |-> None]
    /\ loads = [p \in Procs |-> 0]
    /\ remote_reads = [p \in Procs |-> 0]
    /\ writes = [p \in Procs |-> 0]
    /\ reply = NoReply
    /\ checked = None
    /\ auth = None

\* ------------------------------------------------------------ file system
\* std::fs::read(local_path): the bytes of a readable file, an error otherwise.
fs_read(file, io_ok) ==
    IF IsSome(file) /\ io_ok THEN Ok(Unwrap(file)) ELSE Err("IOError")

\* What std::fs::write (create-and-truncate, then write_all) can meet.
WriteOutcomes == {"ok", "create_failed", "write_failed"}

\* Mutant: the file is opened with create_new, so an existing file is kept.
fs_write_create_new(file, bytes, outcome) ==
    IF IsSome(file) THEN file ELSE Some(bytes)

\* The file after std::fs::write(local_path, bytes): the bytes; the old file
\* when it could not be created; a truncated file when writing it failed.
fs_write(file, bytes, outcome) ==
    CASE outcome = "ok" -> Some(bytes)
      [] outcome = "create_failed" -> file
      [] outcome = "write_failed" -> Some(0)

\* ----------------------------------------------------------- construction
\* The construction goes on to its next step.
Goto(p, step) ==
    /\ pc' = [pc EXCEPT ![p] = step]
    /\ UNCHANGED <<err, failed_at>>

\* An error return of new / fetch_target (the ? operator or return Err).
Fail(p, e) ==
    /\ pc' = [pc EXCEPT ![p] = "failed"]
    /\ err' = [err EXCEPT ![p] = e]
    /\ failed_at' = [failed_at EXCEPT ![p] = pc[p]]

\* new is called: the two base URLs parse, the embedded root.json is there.
New(p) ==
    /\ pc[p] = "uninit"
    /\ Goto(p, "load")
    /\ UNCHANGED <<env_vars, aux_vars, disk, now, tried, source, candidate, data, refetched, ret,
                   remote_kind, trusted_root, loads, remote_reads, writes, reply>>

\* RepositoryLoader::load().await.map_err(Box::new)?
LoadRepository(p) ==
    /\ pc[p] = "load"
    /\ loads' = [loads EXCEPT ![p] = @ + 1]
    /\ \E loaded \in BOOLEAN :
          IF loaded THEN Goto(p, "read_cache") ELSE Fail(p, "ToughError")
    /\ UNCHANGED <<env_vars, aux_vars, disk, now, tried, source, candidate, data, refetched, ret,
                   remote_kind, trusted_root, remote_reads, writes, reply>>

\* Mutant: the embedded table is consulted before the disk cache.
ReadCacheSkipped(p) ==
    /\ pc[p] = "read_cache"
    /\ Goto(p, "embedded")
    /\ UNCHANGED <<env_vars, aux_vars, disk, now, tried, source, candidate, data, refetched, ret,
                   remote_kind, trusted_root, loads, remote_reads, writes, reply>>

\* First arm: local_path.as_ref().map(std::fs::read) is Some(Ok(local_data)).
ReadCache(p) ==
    /\ pc[p] = "read_cache"
    /\ IF checkout_dir = None
       THEN /\ Goto(p, "embedded")
            /\ UNCHANGED <<tried, source, candidate>>
       ELSE \E io_ok \in BOOLEAN :
              LET r == fs_read(disk, io_ok) IN
              /\ tried' = [tried EXCEPT ![p] = Append(@, "cache")]
              /\ IF r.ok
                 THEN /\ candidate' = [candidate EXCEPT ![p] = r.val]
                      /\ source' = [source EXCEPT ![p] = "cache"]
                      /\ Goto(p, "validate")
                 ELSE /\ Goto(p, "embedded")
                      /\ UNCHANGED <<source, candidate>>
    /\ UNCHANGED <<env_vars, aux_vars, disk, now, data, refetched, ret, remote_kind, trusted_root,
                   loads, remote_reads, writes, reply>>

\* Second arm: constants::static_resource(name.raw()) is Some(embedded_data).
ReadEmbedded(p) ==
    /\ pc[p] = "embedded"
    /\ tried' = [tried EXCEPT ![p] = Append(@, "embedded")]
    /\ LET r == static_resource(name, embedded_doc) IN
       IF IsSome(r)
       THEN /\ candidate' = [candidate EXCEPT ![p] = r]
            /\ source' = [source EXCEPT ![p] = "embedded"]
            /\ Goto(p, "validate")
       ELSE /\ Goto(p, "remote")
            /\ UNCHANGED <<source, candidate>>
    /\ UNCHANGED <<env_vars, aux_vars, disk, now, data, refetched, ret, remote_kind, trusted_root,
                   loads, remote_reads, writes, reply>>

\* Third arm: read_remote_target().await is Ok(remote_data); otherwise
\* return Err(TufTargetNotFoundError).
ReadRemote(p) ==
    /\ pc[p] = "remote"
    /\ tried' = [tried EXCEPT ![p] = Append(@, "remote")]
    /\ remote_reads' = [remote_reads EXCEPT ![p] = @ + 1]
    /\ \E outcome \in RemoteOutcomes, served \in Bytes :
          LET r == read_remote_target(targets_meta, outcome, served) IN
          /\ remote_kind' = [remote_kind EXCEPT
                                ![p] = read_target(targets_meta, outcome, served).kind]
          /\ IF r.ok
             THEN /\ candidate' = [candidate EXCEPT ![p] = r.val]
                  /\ source' = [source EXCEPT ![p] = "remote"]
                  /\ Goto(p, "validate")
             ELSE /\ Fail(p, "TufTargetNotFoundError")
                  /\ UNCHANGED <<source, candidate>>
    /\ UNCHANGED <<env_vars, aux_vars, disk, now, data, refetched, ret, trusted_root, loads,
                   writes, reply>>

\* Mutant: the digest comparison never reports a mismatch.
never_out_of_date(bytes, sha256) == FALSE

\* Mutant: the digest comparison always reports a mismatch.
always_out_of_date(bytes, sha256) == TRUE

\* Sha256::digest(&data)[..] != target.hashes.sha256[..]
out_of_date(bytes, sha256) == Sha256(bytes) # sha256

\* Mutant: a target without a metadata entry is accepted as it is.
ValidateLenient(p) ==
    /\ pc[p] = "validate"
    /\ IF IsSome(targets_meta) /\ out_of_date(Unwrap(candidate[p]), Unwrap(targets_meta))
       THEN /\ Goto(p, "refetch")
            /\ data' = data
       ELSE /\ data' = [data EXCEPT ![p] = candidate[p]]
            /\ Goto(p, "write")
    /\ UNCHANGED <<env_vars, aux_vars, disk, now, tried, source, candidate, refetched, ret,
                   remote_kind, trusted_root, loads, remote_reads, writes, reply>>

\* Mutant: a cached file that is out of date is deleted before the re-fetch.
ValidateEvicting(p) ==
    /\ pc[p] = "validate"
    /\ IF targets_meta = None
       THEN /\ Fail(p, "TufMetadataError")
            /\ UNCHANGED <<data, disk>>
       ELSE IF out_of_date(Unwrap(candidate[p]), Unwrap(targets_meta))
       THEN /\ Goto(p, "refetch")
            /\ disk' = None
            /\ data' = data
       ELSE /\ data' = [data EXCEPT ![p] = candidate[p]]
            /\ Goto(p, "write")
            /\ disk' = disk
    /\ UNCHANGED <<env_vars, aux_vars, now, tried, source, candidate, refetched, ret,
                   remote_kind, trusted_root, loads, remote_reads, writes, reply>>

\* repository.targets().signed.targets.get(&name), then the digest comparison.
Validate(p) ==
    /\ pc[p] = "validate"
    /\ IF targets_meta = None
       THEN /\ Fail(p, "TufMetadataError")
            /\ data' = data
       ELSE IF out_of_date(Unwrap(candidate[p]), Unwrap(targets_meta))
       THEN /\ Goto(p, "refetch")
            /\ data' = data
       ELSE /\ data' = [data EXCEPT ![p] = candidate[p]]
            /\ Goto(p, "write")
    /\ UNCHANGED <<env_vars, aux_vars, disk, now, tried, source, candidate, refetched, ret,
                   remote_kind, trusted_root, loads, remote_reads, writes, reply>>

\* Mutant: when the re-fetch fails the mismatching candidate is used.
RefetchFallingBack(p) ==
    /\ pc[p] = "refetch"
    /\ remote_reads' = [remote_reads EXCEPT ![p] = @ + 1]
    /\ \E outcome \in RemoteOutcomes, served \in Bytes :
          LET r == read_remote_target(targets_meta, outcome, served) IN
          /\ remote_kind' = [remote_kind EXCEPT
                                ![p] = read_target(targets_meta, outcome, served).kind]
          /\ IF r.ok
             THEN /\ data' = [data EXCEPT ![p] = r.val]
                  /\ refetched' = [refetched EXCEPT ![p] = r.val]
             ELSE /\ data' = [data EXCEPT ![p] = candidate[p]]
                  /\ UNCHANGED refetched
          /\ Goto(p, "write")
    /\ UNCHANGED <<env_vars, aux_vars, disk, now, tried, source, candidate, ret, trusted_root,
                   loads, writes, reply>>

\* Out of date: read_remote_target().await?.to_vec()
Refetch(p) ==
    /\ pc[p] = "refetch"
    /\ remote_reads' = [remote_reads EXCEPT ![p] = @ + 1]
    /\ \E outcome \in RemoteOutcomes, served \in Bytes :
          LET r == read_remote_target(targets_meta, outcome, served) IN
          /\ remote_kind' = [remote_kind EXCEPT
                                ![p] = read_target(targets_meta, outcome, served).kind]
          /\ IF r.ok
             THEN /\ data' = [data EXCEPT ![p] = r.val]
                  /\ refetched' = [refetched EXCEPT ![p] = r.val]
                  /\ Goto(p, "write")
             ELSE /\ Fail(p, r.err)
                  /\ UNCHANGED <<data, refetched>>
    /\ UNCHANGED <<env_vars, aux_vars, disk, now, tried, source, candidate, ret, trusted_root,
                   loads, writes, reply>>

\* Mutant: the disk copy is written only when it was out of date.
WriteCacheIfRefetched(p) ==
    /\ pc[p] = "write"
    /\ IF checkout_dir = None \/ refetched[p] = None
       THEN /\ ret' = [ret EXCEPT ![p] = data[p]]
            /\ Goto(p, "fetched")
            /\ UNCHANGED <<disk, writes>>
       ELSE /\ disk' = Some(Unwrap(data[p]))
            /\ writes' = [writes EXCEPT ![p] = @ + 1]
            /\ ret' = [ret EXCEPT ![p] = data[p]]
            /\ Goto(p, "fetched")
    /\ UNCHANGED <<env_vars, aux_vars, now, tried, source, candidate, data, refetched, remote_kind,
                   trusted_root, loads, remote_reads, reply>>

\* if let Some(local_path) = local_path { std::fs::write(local_path, &data)?; }
\* Ok(data)
WriteCache(p) ==
    /\ pc[p] = "write"
    /\ IF checkout_dir = None
       THEN /\ ret' = [ret EXCEPT ![p] = data[p]]
            /\ Goto(p, "fetched")
            /\ UNCHANGED <<disk, writes>>
       ELSE \E outcome \in WriteOutcomes :
              /\ disk' = fs_write(disk, Unwrap(data[p]), outcome)
              /\ IF outcome = "ok"
                 THEN /\ writes' = [writes EXCEPT ![p] = @ + 1]
                      /\ ret' = [ret EXCEPT ![p] = data[p]]
                      /\ Goto(p, "fetched")
                 ELSE /\ Fail(p, "IOError")
                      /\ UNCHANGED <<writes, ret>>
    /\ UNCHANGED <<env_vars, aux_vars, now, tried, source, candidate, data, refetched, remote_kind,
                   trusted_root, loads, remote_reads, reply>>

\* Mutant: a document that does not parse yields an instance with an empty
\* trusted root instead of an error.
ParseOrDefault(p) ==
    /\ pc[p] = "fetched"
    /\ name = TrustedRootName
    /\ LET r == from_slice(Unwrap(ret[p])) IN
       /\ trusted_root' = [trusted_root EXCEPT ![p] =
                              IF r.ok THEN r.val
                              ELSE Some([certificate_authorities |-> <<>>,
                                         tlogs |-> <<>>, ctlogs |-> <<>>])]
       /\ Goto(p, "ready")
    /\ UNCHANGED <<env_vars, aux_vars, disk, now, tried, source, candidate, data, refetched, ret,
                   remote_kind, loads, remote_reads, writes, reply>>

\* new: serde_json::from_slice(&data[..])? and Ok(Self { trusted_root })
Parse(p) ==
    /\ pc[p] = "fetched"
    /\ name = TrustedRootName
    /\ LET r == from_slice(Unwrap(ret[p])) IN
       IF r.ok
       THEN /\ trusted_root' = [trusted_root EXCEPT ![p] = r.val]
            /\ Goto(p, "ready")
       ELSE /\ Fail(p, r.err)
            /\ trusted_root' = trusted_root
    /\ UNCHANGED <<env_vars, aux_vars, disk, now, tried, source, candidate, data, refetched, ret,
                   remote_kind, loads, remote_reads, writes, reply>>

\* ---------------------------------------------------------------- queries
\* Mutant: a query starts over from the repository, as a refresh would.
AnswerReloading(p, op, result) ==
    /\ pc[p] = "ready"
    /\ reply' = [op |-> op, by |-> p, at |-> now, result |-> result]
    /\ pc' = [pc EXCEPT ![p] = "load"]
    /\ UNCHANGED <<env_vars, aux_vars, disk, now, tried, source, candidate, data, refetched, ret,
                   err, failed_at, remote_kind, trusted_root, loads, remote_reads, writes>>

\* Mutant: a query rewrites the cache file from the embedded table.
AnswerUpdatingCache(p, op, result) ==
    /\ pc[p] = "ready"
    /\ reply' = [op |-> op, by |-> p, at |-> now, result |-> result]
    /\ disk' = IF checkout_dir = None THEN disk ELSE Some(embedded_doc)
    /\ UNCHANGED <<env_vars, aux_vars, now, run_vars>>

\* A caller's query on the ready instance p; every query only reads self.
Answer(p, op, result) ==
    /\ pc[p] = "ready"
    /\ reply' = [op |-> op, by |-> p, at |-> now, result |-> result]
    /\ UNCHANGED <<env_vars, aux_vars, disk, now, run_vars>>

FulcioCerts(p) ==
    Answer(p, "fulcio_certs", fulcio_certs(Unwrap(trusted_root[p]), now))

RekorKeys(p) ==
    Answer(p, "rekor_keys", rekor_keys(Unwrap(trusted_root[p]), now))

CtfeKeys(p) ==
    Answer(p, "ctfe_keys", ctfe_keys(Unwrap(trusted_root[p]), now))

\* Time passes.
Tick ==
    /\ now < MaxTime
    /\ now' = now + 1
    /\ UNCHANGED <<env_vars, aux_vars, disk, run_vars, reply>>

Step(p) ==
    \/ New(p)
    \/ LoadRepository(p)
    \/ ReadCache(p)
    \/ ReadEmbedded(p)
    \/ ReadRemote(p)
    \/ Validate(p)
    \/ Refetch(p)
    \/ WriteCache(p)
    \/ Parse(p)
    \/ FulcioCerts(p)
    \/ RekorKeys(p)
    \/ CtfeKeys(p)

\* One construction, alone on its checkout directory.
Next ==
    \/ \E p \in Solo : Step(p)
    \/ Tick

Spec == Init /\ [][Next]_vars

\* ----------------------------------------------------------------- claims
\* fetch_target has returned (Ok or Err) for construction p.
FetchReturned(p) ==
    \/ pc[p] \in {"fetched", "ready"}
    \/ pc[p] = "failed" /\ failed_at[p] \in {"remote", "validate", "refetch", "write", "fetched"}

\* The bytes b hash to the digest the verified metadata declares for name.
Authentic(b) == IsSome(targets_meta) /\ Sha256(b) = Unwrap(targets_meta)

\* C1: fail closed. Whenever fetch_target succeeds the bytes it returns hash
\* to the digest the verified metadata declares for the name, whichever
\* source supplied the candidate and also after a re-fetch; only such bytes
\* are ever parsed into a trust root.
C1_FailClosed ==
    \A p \in Procs :
        /\ IsSome(data[p]) => Authentic(Unwrap(data[p]))
        /\ IsSome(ret[p]) => Authentic(Unwrap(ret[p]))
        /\ IsSome(trusted_root[p]) =>
              /\ IsSome(ret[p])
              /\ Authentic(Unwrap(ret[p]))
              /\ from_slice(Unwrap(ret[p])) = Ok(Unwrap(trusted_root[p]))

\* C1 witness: a construction became ready on bytes that the re-fetch
\* delivered after the cached bytes did not match.
C1_Witness ==
    /\ pc[1] = "ready"
    /\ source[1] = "cache"
    /\ IsSome(refetched[1])
    /\ ret[1] = refetched[1]
    /\ candidate[1] # ret[1]

\* The order in which the sources are consulted.
SourceOrder ==
    IF checkout_dir = None THEN <<"embedded", "remote">>
    ELSE <<"cache", "embedded", "remote">>

IsPrefix(s, t) == Len(s) <= Len(t) /\ \A i \in 1..Len(s) : s[i] = t[i]

\* C2: resolution order. The sources are consulted in the order disk cache
\* (only with a checkout directory), embedded table, remote; the candidate
\* comes from the last source consulted, no later source is consulted once
\* one supplied data, and the remote is read for the candidate only when
\* the embedded table has no entry.
C2_ResolutionOrder ==
    \A p \in Procs :
        /\ IsPrefix(tried[p], SourceOrder)
        /\ pc[p] \in {"embedded", "remote"} => source[p] = "none"
        /\ pc[p] = "embedded" /\ checkout_dir # None => tried[p] = <<"cache">>
        /\ source[p] # "none" =>
              /\ tried[p] # <<>>
              /\ source[p] = tried[p][Len(tried[p])]
              /\ IsSome(candidate[p])
        /\ source[p] = "cache" => checkout_dir # None
        /\ source[p] = "remote" => static_resource(name, embedded_doc) = None
        /\ pc[p] = "validate" =>
              remote_reads[p] = (IF source[p] = "remote" THEN 1 ELSE 0)

\* C2 witness: with a checkout directory configured, the cache and the
\* embedded table gave nothing and the remote supplied the candidate.
C2_Witness ==
    /\ pc[1] = "validate"
    /\ checkout_dir # None
    /\ source[1] = "remote"
    /\ tried[1] = <<"cache", "embedded", "remote">>

\* C3: caching round trip. When the cache supplied bytes that hash to the
\* metadata digest, no remote read is made, the bytes returned are exactly
\* the cached bytes, and the only possible failure is the write-back.
C3_CachingRoundTrip ==
    \A p \in Procs :
        (source[p] = "cache" /\ Authentic(Unwrap(candidate[p]))) =>
            /\ remote_reads[p] = 0
            /\ refetched[p] = None
            /\ pc[p] \in {"validate", "write"} => disk = candidate[p]
            /\ FetchReturned(p) =>
                  \/ ret[p] = candidate[p]
                  \/ pc[p] = "failed" /\ failed_at[p] = "write" /\ err[p] = "IOError"

\* C3 witness: a construction ended ready on the cached bytes without any
\* remote read.
C3_Witness ==
    /\ pc[1] = "ready"
    /\ source[1] = "cache"
    /\ ret[1] = candidate[1]
    /\ remote_reads[1] = 0

\* C4: digest-mismatch path. When the cache supplied bytes that do not hash
\* to the metadata digest, exactly one remote re-fetch is made, and a
\* successful fetch_target returns the re-fetched bytes and leaves them in
\* the cache file.
C4_DigestMismatchPath ==
    \A p \in Procs :
        (/\ source[p] = "cache"
         /\ IsSome(targets_meta)
         /\ ~Authentic(Unwrap(candidate[p]))) =>
            /\ pc[p] \in {"write", "fetched", "ready", "failed"} => remote_reads[p] = 1
            /\ pc[p] \in {"write", "fetched", "ready"} =>
                  IsSome(refetched[p]) /\ data[p] = refetched[p]
            /\ IsSome(ret[p]) =>
                  /\ ret[p] = refetched[p]
                  /\ disk = ret[p]
                  /\ writes[p] = 1

\* C4 witness: the stale cache file was replaced by the re-fetched bytes,
\* which fetch_target returned.
C4_Witness ==
    /\ pc[1] = "fetched"
    /\ source[1] = "cache"
    /\ candidate[1] # ret[1]
    /\ ret[1] = refetched[1]
    /\ disk = ret[1]
    /\ remote_reads[1] = 1

\* C5: write-through caching. Every step leaves the model in a state where,
\* with a checkout directory, a successful fetch_target has written once and
\* the cache file holds exactly the bytes returned, whatever the source of
\* the candidate; with no checkout directory nothing is written and the
\* file is left alone.
C5_WriteThrough ==
    [][\A p \in Procs :
          /\ (IsSome(ret'[p]) /\ checkout_dir # None) =>
                (disk' = ret'[p] /\ writes'[p] = 1)
          /\ checkout_dir = None => (disk' = disk /\ writes'[p] = 0)]_vars

\* C5 witness: the candidate came from the embedded table, matched the
\* digest, and was written to a cache file that held other bytes.
C5_Witness ==
    /\ pc[1] = "fetched"
    /\ checkout_dir # None
    /\ source[1] = "embedded"
    /\ refetched[1] = None
    /\ tried[1] = <<"cache", "embedded">>
    /\ writes[1] = 1
    /\ disk = ret[1]

\* C6 as stated: fetch_target fails with TufTargetNotFoundError when no
\* source supplies data, and every failed remote read, in the initial
\* fallback and in the re-fetch alike, is reported as TufTargetNotFoundError.
C6_EveryRemoteFailureNotFound ==
    \A p \in Procs :
        (pc[p] = "failed" /\ failed_at[p] \in {"remote", "refetch"}) =>
            err[p] = "TufTargetNotFoundError"

\* C6, amended: fetch_target fails with TufTargetNotFoundError exactly when
\* no source supplies data, whatever made the remote read of the fallback
\* fail; a failed re-fetch is reported as TufTargetNotFoundError when
\* read_target itself failed or found no target, and as the tough error
\* itself when collecting the returned stream failed.
C6_RemoteFailures ==
    \A p \in Procs :
        /\ (pc[p] = "failed" /\ failed_at[p] = "remote") =>
              /\ err[p] = "TufTargetNotFoundError"
              /\ source[p] = "none"
              /\ tried[p] = SourceOrder
              /\ static_resource(name, embedded_doc) = None
              /\ remote_kind[p] \in {"Err", "None", "Stream"}
              /\ ret[p] = None
        /\ (pc[p] = "failed" /\ source[p] = "none") => failed_at[p] \in {"load", "remote"}
        /\ (pc[p] = "failed" /\ failed_at[p] = "refetch") =>
              /\ remote_kind[p] \in {"Err", "None"} => err[p] = "TufTargetNotFoundError"
              /\ remote_kind[p] = "Stream" => err[p] = "ToughError"
              /\ ret[p] = None

\* C6 witness: the re-fetch after a mismatch failed while its stream was
\* collected and fetch_target returned the tough error.
C6_Witness ==
    /\ pc[1] = "failed"
    /\ failed_at[1] = "refetch"
    /\ remote_kind[1] = "Stream"
    /\ err[1] = "ToughError"

C8_ConstructionAtomic ==
    \A p \in Procs :
        /\ IsSome(trusted_root[p]) <=> pc[p] = "ready"
        /\ pc[p] = "ready" =>
              /\ err[p] = "none"
              /\ failed_at[p] = "none"
              /\ loads[p] = 1
              /\ IsSome(ret[p])
              /\ Authentic(Unwrap(ret[p]))
              /\ checkout_dir # None => writes[p] = 1
              /\ from_slice(Unwrap(ret[p])) = Ok(Unwrap(trusted_root[p]))
        /\ pc[p] = "failed" =>
              /\ trusted_root[p] = None
              /\ err[p] # "none"
              /\ failed_at[p] \in {"load", "remote", "validate", "refetch", "write", "fetched"}

\* C8 witness: authentic bytes were in hand, the cache write failed, and no
\* instance exists.
C8_Witness ==
    /\ pc[1] = "failed"
    /\ failed_at[1] = "write"
    /\ err[1] = "IOError"
    /\ IsSome(data[1])
    /\ trusted_root[1] = None

\* The lifecycle phase of a construction step.
Phase(step) ==
    CASE step = "uninit" -> "uninitialized"
      [] step = "ready" -> "ready"
      [] step = "failed" -> "failed"
      [] OTHER -> "loading"

Times == 0..MaxTime

\* Every Option<&TimeRange>: no range, or a range with optional start and end.
Ranges == OptionOf({TimeRange(s, e) : s \in OptionOf(Times), e \in OptionOf(Times)})

\* One call is_timerange_valid(range, allow_expired) at the current time.
CheckTimerange ==
    /\ \E range \in Ranges, allow_expired \in BOOLEAN :
          checked' = Some([range |-> range,
                           allow_expired |-> allow_expired,
                           at |-> now,
                           valid |-> is_timerange_valid(range, allow_expired, now)])
    /\ UNCHANGED <<env_vars, disk, now, run_vars, reply, auth>>

\* No construction runs; only the policy function is called as time passes.
PolicyInit ==
    /\ Init
    /\ checkout_dir = None
    /\ name = TrustedRootName
    /\ disk = None
    /\ targets_meta = None
    /\ embedded_doc = 0

PolicyNext ==
    \/ CheckTimerange
    \/ Tick

PolicySpec == PolicyInit /\ [][PolicyNext]_vars

\* The precedence of the validity rules as the specification states them:
\* (1) no range: valid; (2) now < start: invalid; (3) allowExpired: valid;
\* (4) no end: valid; (5) otherwise valid iff now <= end.
isValid(range, allowExpired, t) ==
    IF range = None THEN TRUE
    ELSE IF IsSome(Unwrap(range).start) /\ t < Unwrap(Unwrap(range).start) THEN FALSE
    ELSE IF allowExpired THEN TRUE
    ELSE IF Unwrap(range).end = None THEN TRUE
    ELSE t <= Unwrap(Unwrap(range).end)

\* C11: is_timerange_valid agrees with the stated precedence for every
\* combination of range (absent or present), start, end (absent or present),
\* allowExpired and now.
C11_AgreesWithPrecedence ==
    IsSome(checked) =>
        Unwrap(checked).valid =
            isValid(Unwrap(checked).range, Unwrap(checked).allow_expired, Unwrap(checked).at)

\* ------------------------------------------------ queries on any document
\* The validity windows of the queried documents: none, [1, 2], [2, oo) and
\* a window without start that ends at 1.
DocRanges ==
    {None,
     Some(TimeRange(Some(1), Some(2))),
     Some(TimeRange(Some(2), None)),
     Some(TimeRange(None, Some(1)))}

\* All sequences over S of length at most n.
BoundedSeq(S, n) == UNION {[1..k -> S] : k \in 0..n}

\* A certificate authority: its window and its chain (None: no cert_chain,
\* Some(k): a chain of k certificates).
CAShapes == [valid_for : DocRanges, chain : OptionOf(0..MaxLen)]

\* A log instance: no public key, or a key with or without raw bytes and
\* its window.
LogShapes == OptionOf([has_raw : BOOLEAN, valid_for : DocRanges])

\* The i-th certificate authority of a document; its j-th certificate has
\* the raw bytes 10 * i + j.
CAOf(i, shape) ==
    [valid_for |-> shape.valid_for,
     cert_chain |->
        IF shape.chain = None THEN None
        ELSE Some([certificates |->
                      [j \in 1..Unwrap(shape.chain) |-> Certificate(10 * i + j)]])]

\* The i-th log instance of a list; its key, if it has bytes, has the raw
\* bytes i.
LogOf(i, shape) ==
    TransparencyLogInstance(
        IF shape = None THEN None
        ELSE Some(PublicKey(IF Unwrap(shape).has_raw THEN Some(i) ELSE None,
                            Unwrap(shape).valid_for)))

\* The documents queried: any list of certificate authorities, or any list
\* of log instances as both the signing logs and the CT logs.
QueryDocuments ==
    {[certificate_authorities |-> [i \in 1..Len(cas) |-> CAOf(i, cas[i])],
      tlogs |-> <<>>,
      ctlogs |-> <<>>] : cas \in BoundedSeq(CAShapes, MaxLen)}
    \cup
    {[certificate_authorities |-> <<>>,
      tlogs |-> [i \in 1..Len(logs) |-> LogOf(i, logs[i])],
      ctlogs |-> [i \in 1..Len(logs) |-> LogOf(i, logs[i])]] :
        logs \in BoundedSeq(LogShapes, MaxLen)}

\* The state after a successful new whose trusted_root.json parsed into one
\* of the documents (the bytes of that document are not modelled).
QueryInit ==
    /\ checkout_dir = None
    /\ name = TrustedRootName
    /\ disk = None
    /\ targets_meta = None
    /\ embedded_doc = 0
    /\ now = 0
    /\ pc = [p \in Procs |-> IF p \in Solo THEN "ready" ELSE "uninit"]
    /\ tried = [p \in Procs |-> <<>>]
    /\ source = [p \in Procs |-> "none"]
    /\ candidate = [p \in Procs |-> None]
    /\ data = [p \in Procs |-> None]
    /\ refetched = [p \in Procs |-> None]
    /\ ret = [p \in Procs |-> None]
    /\ err = [p \in Procs |-> "none"]
    /\ failed_at = [p \in Procs |-> "none"]
    /\ remote_kind = [p \in Procs |-> "none"]
    /\ \E doc \in QueryDocuments :
          trusted_root = [p \in Procs |-> IF p \in Solo THEN Some(doc) ELSE None]
    /\ loads = [p \in Procs |-> IF p \in Solo THEN 1 ELSE 0]
    /\ remote_reads = [p \in Procs |-> 0]
    /\ writes = [p \in Procs |-> 0]
    /\ reply = NoReply
    /\ checked = None
    /\ auth = None

QueryNext ==
    \/ \E p \in Solo : FulcioCerts(p) \/ RekorKeys(p) \/ CtfeKeys(p)
    \/ Tick

QuerySpec == QueryInit /\ [][QueryNext]_vars

\* The document of the instance that is queried.
Doc == Unwrap(trusted_root[1])

\* The elements of a sequence.
Elems(seq) == {seq[i] : i \in 1..Len(seq)}

\* The latest query was op and returned Ok.
Returned(op) == reply.op = op /\ reply.result.ok

\* What the latest query returned.
ReturnedItems == Elems(Unwrap(reply.result.val))

\* The window has a start that lies after t.
StartsAfter(range, t) ==
    IsSome(range) /\ IsSome(Unwrap(range).start) /\ t < Unwrap(Unwrap(range).start)

\* The raw bytes of the certificates of a certificate authority.
ChainCerts(ca) ==
    IF ca.cert_chain = None THEN <<>>
    ELSE [j \in 1..Len(Unwrap(ca.cert_chain).certificates) |->
             Unwrap(ca.cert_chain).certificates[j].raw_bytes]

\* The windows that occur in the queried document.
DocWindows ==
    {Doc.certificate_authorities[i].valid_for : i \in 1..Len(Doc.certificate_authorities)}
    \cup {Unwrap(Doc.tlogs[i].public_key).valid_for :
             i \in {k \in 1..Len(Doc.tlogs) : IsSome(Doc.tlogs[k].public_key)}}
    \cup {Unwrap(Doc.ctlogs[i].public_key).valid_for :
             i \in {k \in 1..Len(Doc.ctlogs) : IsSome(Doc.ctlogs[k].public_key)}}

\* No key of the list logs whose window starts after the time of the latest
\* query is among the items that query returned.
NoStartsAfterKeyReturned(logs) ==
    \A i \in 1..Len(logs) :
        (/\ IsSome(logs[i].public_key)
         /\ IsSome(Unwrap(logs[i].public_key).raw_bytes)
         /\ StartsAfter(Unwrap(logs[i].public_key).valid_for, reply.at)) =>
            Unwrap(Unwrap(logs[i].public_key).raw_bytes) \notin ReturnedItems

\* C12: not-yet-active material is never accepted. For every window of the
\* document with a start after now is_timerange_valid is false with and
\* without allow_expired, and no query returns a certificate or a key whose
\* window starts after the time of the query.
C12_NotYetActiveRejected ==
    /\ \A range \in DocWindows, allow_expired \in BOOLEAN :
          StartsAfter(range, now) => ~is_timerange_valid(range, allow_expired, now)
    /\ Returned("fulcio_certs") =>
          \A i \in 1..Len(Doc.certificate_authorities) :
              StartsAfter(Doc.certificate_authorities[i].valid_for, reply.at) =>
                  Elems(ChainCerts(Doc.certificate_authorities[i])) \cap ReturnedItems = {}
    /\ Returned("rekor_keys") => NoStartsAfterKeyReturned(Doc.tlogs)
    /\ Returned("ctfe_keys") => NoStartsAfterKeyReturned(Doc.ctlogs)

\* C12 witness: fulcio_certs returned the certificate of one authority and
\* left out the certificates of another whose window had not started.
C12_Witness ==
    /\ Returned("fulcio_certs")
    /\ Len(Doc.certificate_authorities) = 2
    /\ \E i \in 1..2 :
          /\ StartsAfter(Doc.certificate_authorities[i].valid_for, reply.at)
          /\ ChainCerts(Doc.certificate_authorities[i]) # <<>>
          /\ Elems(ChainCerts(Doc.certificate_authorities[i])) \cap ReturnedItems = {}

\* The window has an end that lies before t.
EndsBefore(range, t) ==
    IsSome(range) /\ IsSome(Unwrap(range).end) /\ Unwrap(Unwrap(range).end) < t

\* No key of the list logs whose window ended before the time of the latest
\* query is among the items that query returned.
NoEndedKeyReturned(logs) ==
    \A i \in 1..Len(logs) :
        (/\ IsSome(logs[i].public_key)
         /\ IsSome(Unwrap(logs[i].public_key).raw_bytes)
         /\ EndsBefore(Unwrap(logs[i].public_key).valid_for, reply.at)) =>
            Unwrap(Unwrap(logs[i].public_key).raw_bytes) \notin ReturnedItems

\* C13: expired material. For every window of the document whose end lies
\* before now and whose start is absent or not after now, is_timerange_valid
\* is true with allow_expired and false without; and rekor_keys and
\* ctfe_keys never return a key whose end has passed.
C13_ExpiredMaterial ==
    /\ \A range \in DocWindows :
          (EndsBefore(range, now) /\ ~StartsAfter(range, now)) =>
              /\ is_timerange_valid(range, TRUE, now)
              /\ ~is_timerange_valid(range, FALSE, now)
    /\ Returned("rekor_keys") => NoEndedKeyReturned(Doc.tlogs)
    /\ Returned("ctfe_keys") => NoEndedKeyReturned(Doc.ctlogs)

\* The certificates, in document order, of the authorities from the i-th on
\* whose window is valid at t with expired windows allowed.
RECURSIVE CertsFrom(_, _, _)
CertsFrom(cas, i, t) ==
    IF i > Len(cas) THEN <<>>
    ELSE (IF isValid(cas[i].valid_for, TRUE, t) THEN ChainCerts(cas[i]) ELSE <<>>)
         \o CertsFrom(cas, i + 1, t)

\* C14: fulcio_certs returns exactly the certificates of all certificate
\* authorities whose window passes with allowExpired = true, in document
\* order across authorities and in chain order within each, and fails with
\* TufMetadataError exactly when that sequence is empty.
C14_FulcioCerts ==
    reply.op = "fulcio_certs" =>
        LET expected == CertsFrom(Doc.certificate_authorities, 1, reply.at) IN
        IF expected = <<>>
        THEN reply.result = Err("TufMetadataError")
        ELSE reply.result = Ok(expected)

\* C14 witness: fulcio_certs returned the whole chains of two authorities,
\* one of them expired at the time of the query.
C14_Witness ==
    /\ Returned("fulcio_certs")
    /\ Len(Doc.certificate_authorities) = 2
    /\ Len(Unwrap(reply.result.val)) = 2 * MaxLen
    /\ \E i \in 1..2 : EndsBefore(Doc.certificate_authorities[i].valid_for, reply.at)

\* The raw bytes, in document order, of the keys of the instances from the
\* i-th on that have a public key with raw bytes whose window passes the
\* strict check at t.
RECURSIVE KeysFrom(_, _, _)
KeysFrom(logs, i, t) ==
    IF i > Len(logs) THEN <<>>
    ELSE (IF /\ IsSome(logs[i].public_key)
             /\ IsSome(Unwrap(logs[i].public_key).raw_bytes)
             /\ isValid(Unwrap(logs[i].public_key).valid_for, FALSE, t)
          THEN Unwrap(logs[i].public_key).raw_bytes
          ELSE <<>>)
         \o KeysFrom(logs, i + 1, t)

\* C15: rekor_keys succeeds if and only if exactly one signing-log key
\* passes the strict validity check, and then returns exactly that key;
\* with zero or with two or more active keys it fails with TufMetadataError.
C15_RekorKeys ==
    reply.op = "rekor_keys" =>
        LET active == KeysFrom(Doc.tlogs, 1, reply.at) IN
        IF Len(active) = 1
        THEN reply.result = Ok(active)
        ELSE reply.result = Err("TufMetadataError")

\* C16: ctfe_keys returns, in document order, all CT-log keys that pass the
\* strict validity check and succeeds whenever at least one passes; it fails
\* with TufMetadataError exactly when none passes.
C16_CtfeKeys ==
    reply.op = "ctfe_keys" =>
        LET active == KeysFrom(Doc.ctlogs, 1, reply.at) IN
        IF active # <<>>
        THEN reply.result = Ok(active)
        ELSE reply.result = Err("TufMetadataError")

\* ---------------------------------------------------------------------
\* The worked scenario: one document, queried at chosen instants.

\* One certificate authority valid [1000, 3000] with two certificates, one
\* signing-log key valid from 1000 on, and two CT-log keys valid
\* [1000, 3000] and from 1000 on.
ScenarioDocument ==
    [certificate_authorities |->
        << CertificateAuthority(Some(TimeRange(Some(1000), Some(3000))),
                                << Certificate(11), Certificate(12) >>) >>,
     tlogs |->
        << TransparencyLogInstance(Some(PublicKey(Some(21),
                                                  Some(TimeRange(Some(1000), None))))) >>,
     ctlogs |->
        << TransparencyLogInstance(Some(PublicKey(Some(31),
                                                  Some(TimeRange(Some(1000), Some(3000)))))),
           TransparencyLogInstance(Some(PublicKey(Some(32),
                                                  Some(TimeRange(Some(1000), None))))) >>]

\* The instants at which the clock is read: around each edge of the windows,
\* inside them, and the instant of the scenario.
ScenarioInstants == {0, 999, 1000, 1001, 2000, 2999, 3000, 3001, 4000}

\* The clock moves on to a later instant.
Elapse ==
    /\ \E t \in ScenarioInstants : t > now /\ now' = t
    /\ UNCHANGED <<env_vars, aux_vars, disk, run_vars, reply>>

ScenarioInit ==
    /\ checkout_dir = None
    /\ name = TrustedRootName
    /\ disk = None
    /\ targets_meta = None
    /\ embedded_doc = 0
    /\ now = 0
    /\ pc = [p \in Procs |-> IF p \in Solo THEN "ready" ELSE "uninit"]
    /\ tried = [p \in Procs |-> <<>>]
    /\ source = [p \in Procs |-> "none"]
    /\ candidate = [p \in Procs |-> None]
    /\ data = [p \in Procs |-> None]
    /\ refetched = [p \in Procs |-> None]
    /\ ret = [p \in Procs |-> None]
    /\ err = [p \in Procs |-> "none"]
    /\ failed_at = [p \in Procs |-> "none"]
    /\ remote_kind = [p \in Procs |-> "none"]
    /\ trusted_root = [p \in Procs |-> IF p \in Solo THEN Some(ScenarioDocument) ELSE None]
    /\ loads = [p \in Procs |-> IF p \in Solo THEN 1 ELSE 0]
    /\ remote_reads = [p \in Procs |-> 0]
    /\ writes = [p \in Procs |-> 0]
    /\ reply = NoReply
    /\ checked = None
    /\ auth = None

ScenarioNext ==
    \/ \E p \in Solo : FulcioCerts(p) \/ RekorKeys(p) \/ CtfeKeys(p)
    \/ Elapse

ScenarioSpec == ScenarioInit /\ [][ScenarioNext]_vars

\* C17: on the scenario document, a query made at 4000 answers: fulcio_certs
\* both certificates, rekor_keys the single signing-log key, ctfe_keys only
\* the open-ended CT-log key.
C17_Scenario ==
    reply.at = 4000 =>
        /\ reply.op = "fulcio_certs" => reply.result = Ok(<<11, 12>>)
        /\ reply.op = "rekor_keys" => reply.result = Ok(<<21>>)
        /\ reply.op = "ctfe_keys" => reply.result = Ok(<<32>>)

\* C17 witness: ctfe_keys was asked at 4000 and left the expired key out.
C17_Witness ==
    /\ Returned("ctfe_keys")
    /\ reply.at = 4000
    /\ 31 \notin ReturnedItems
    /\ 32 \in ReturnedItems

\* ---------------------------------------------------------------------
\* The OpenID Connect authorization URL (oauth/openidflow.rs).

MaxRand == 2

\* Random tokens: nonces, CSRF states and PKCE verifiers.
Rand == 1..MaxRand

\* Url::parse: the empty string stands for a string that is not a URL.
ValidUrl(u) == u # ""

OidcIssuers == {"https://oauth2.sigstore.dev/auth", "https://issuer.example", ""}
OidcClientIds == {"sigstore", "other"}
OidcRedirects == {"http://localhost:8080", ""}
OidcEndpoints == {"https://oauth2.sigstore.dev/auth/auth", "https://issuer.example/authorize"}

\* What the provider answers to a discovery request: nothing usable, or a
\* metadata document naming its issuer and its authorization endpoint.
DiscoveryResponses ==
    {None} \cup {Some([issuer |-> i, authorization_endpoint |-> e]) :
                    i \in {u \in OidcIssuers : ValidUrl(u)}, e \in OidcEndpoints}

\* CoreProviderMetadata::discover: the document must carry the issuer asked.
discover(issuer, response) ==
    IF IsSome(response) /\ Unwrap(response).issuer = issuer
    THEN Ok(Unwrap(response))
    ELSE Err("DiscoveryError")

\* PkceCodeChallenge::new_random_sha256: the challenge of a verifier.
S256(verifier) == (5 * verifier + 1) % 7

from_provider_metadata(metadata, client_id, client_secret) ==
    [client_id |-> client_id,
     client_secret |-> client_secret,
     issuer |-> metadata.issuer,
     auth_url |-> metadata.authorization_endpoint,
     redirect_uri |-> None]

set_redirect_uri(client, redirect) == [client EXCEPT !.redirect_uri = Some(redirect)]

\* AuthenticationFlow::AuthorizationCode asks for the response type code.
ResponseType(flow) == IF flow = "AuthorizationCode" THEN "code" ELSE "id_token"

\* Client::authorize_url: the request starts with the scope openid.
authorize_url(client, flow, state, nonce) ==
    [client |-> client,
     response_type |-> ResponseType(flow),
     scopes |-> <<"openid">>,
     state |-> state,
     nonce |-> nonce,
     pkce_challenge |-> None]

add_scope(request, scope) == [request EXCEPT !.scopes = Append(@, scope)]

set_pkce_challenge(request, challenge) ==
    [request EXCEPT !.pkce_challenge = Some(challenge)]

\* AuthorizationRequest::url: the URL and the nonce it carries.
url(request) ==
    [url |-> [endpoint |-> request.client.auth_url,
              response_type |-> request.response_type,
              client_id |-> request.client.client_id,
              redirect_uri |-> request.client.redirect_uri,
              scope |-> request.scopes,
              state |-> request.state,
              nonce |-> request.nonce,
              code_challenge |-> request.pkce_challenge],
     nonce |-> request.nonce]

Panic(message) == [panicked |-> TRUE, message |-> message]

\* Mutant: profile is requested before email.
auth_url_profile_first(oidc_client_id, oidc_client_secret, oidc_issuer, redirect_url, response, state, fresh_nonce, pkce_verifier) ==
    IF ~ValidUrl(oidc_issuer) THEN Panic("Missing the OIDC_ISSUER.")
    ELSE LET provider_metadata == discover(oidc_issuer, response) IN
    IF ~provider_metadata.ok THEN Panic("unreachable")
    ELSE IF ~ValidUrl(redirect_url) THEN Panic("Invalid redirect URL")
    ELSE LET client == set_redirect_uri(
                           from_provider_metadata(Unwrap(provider_metadata.val),
                                                  oidc_client_id, Some(oidc_client_secret)),
                           redirect_url)
             built == url(set_pkce_challenge(
                              add_scope(add_scope(authorize_url(client, "AuthorizationCode",
                                                                state, fresh_nonce),
                                                  "profile"),
                                        "email"),
                              S256(pkce_verifier)))
         IN  [panicked |-> FALSE, url |-> built.url, client |-> client,
              nonce |-> built.nonce, pkce_verifier |-> pkce_verifier]

\* auth_url; response is the provider's answer to discovery, state,
\* fresh_nonce and pkce_verifier are the random values drawn.
auth_url(oidc_client_id, oidc_client_secret, oidc_issuer, redirect_url, response, state, fresh_nonce, pkce_verifier) ==
    IF ~ValidUrl(oidc_issuer) THEN Panic("Missing the OIDC_ISSUER.")
    ELSE LET provider_metadata == discover(oidc_issuer, response) IN
    IF ~provider_metadata.ok THEN Panic("unreachable")
    ELSE IF ~ValidUrl(redirect_url) THEN Panic("Invalid redirect URL")
    ELSE LET client == set_redirect_uri(
                           from_provider_metadata(Unwrap(provider_metadata.val),
                                                  oidc_client_id, Some(oidc_client_secret)),
                           redirect_url)
             built == url(set_pkce_challenge(
                              add_scope(add_scope(authorize_url(client, "AuthorizationCode",
                                                                state, fresh_nonce),
                                                  "email"),
                                        "profile"),
                              S256(pkce_verifier)))
         IN  [panicked |-> FALSE, url |-> built.url, client |-> client,
              nonce |-> built.nonce, pkce_verifier |-> pkce_verifier]

\* A call of auth_url.
AuthUrl ==
    /\ \E id \in OidcClientIds, issuer \in OidcIssuers, redirect \in OidcRedirects,
          response \in DiscoveryResponses, state \in Rand, n \in Rand, verifier \in Rand :
          auth' = Some([oidc_client_id |-> id,
                        oidc_issuer |-> issuer,
                        redirect_url |-> redirect,
                        response |-> response,
                        out |-> auth_url(id, "some_secret", issuer, redirect,
                                         response, state, n, verifier)])
    /\ UNCHANGED <<env_vars, disk, now, run_vars, reply, checked>>

AuthInit == PolicyInit

AuthNext == AuthUrl

AuthSpec == AuthInit /\ [][AuthNext]_vars

\* C18: the URL that auth_url returns points at the authorization endpoint
\* that the given issuer advertises, asks for response_type code, carries
\* the given client id and the scopes openid, email, profile in that order;
\* the client, the nonce and the PKCE verifier returned with it are those of
\* that URL.
C18_AuthUrl ==
    (IsSome(auth) /\ ~Unwrap(auth).out.panicked) =>
        LET call == Unwrap(auth)
            out == call.out
        IN  /\ Unwrap(call.response).issuer = call.oidc_issuer
            /\ out.url.endpoint = Unwrap(call.response).authorization_endpoint
            /\ out.url.response_type = "code"
            /\ out.url.client_id = call.oidc_client_id
            /\ out.url.scope = <<"openid", "email", "profile">>
            /\ out.client.client_id = out.url.client_id
            /\ out.client.auth_url = out.url.endpoint
            /\ out.client.redirect_uri = out.url.redirect_uri
            /\ out.nonce = out.url.nonce
            /\ Some(S256(out.pkce_verifier)) = out.url.code_challenge

\* C18 witness: the call of the unit test returned a URL.
C18_Witness ==
    /\ IsSome(auth)
    /\ ~Unwrap(auth).out.panicked
    /\ Unwrap(auth).oidc_client_id = "sigstore"
    /\ Unwrap(auth).oidc_issuer = "https://oauth2.sigstore.dev/auth"
    /\ Unwrap(auth).redirect_url = "http://localhost:8080"
    /\ Unwrap(auth).out.url.endpoint = "https://oauth2.sigstore.dev/auth/auth"

\* ---------------------------------------------------------------------
\* Retries and the cache on failure (fetch_target).

\* The re-fetches that construction p has attempted: its remote reads other
\* than the one for the last-resort candidate.
Refetches(p) ==
    remote_reads[p] - (IF "remote" \in Elems(tried[p]) THEN 1 ELSE 0)

\* C19: every step leaves a construction with at most one re-fetch attempted
\* and at most two remote reads; a re-fetch that obtains no bytes ends the
\* construction in failure with nothing returned and the candidate not
\* adopted; and a construction that failed reads the remote no more.
C19_NoRetry ==
    [][\A p \in Procs :
          /\ remote_reads'[p] <= 2
          /\ remote_reads'[p] - (IF "remote" \in Elems(tried'[p]) THEN 1 ELSE 0) <= 1
          /\ (pc[p] = "refetch" /\ pc'[p] # "refetch" /\ refetched'[p] = None) =>
                (pc'[p] = "failed" /\ ret'[p] = None /\ data'[p] = None)
          /\ pc[p] = "failed" => (pc'[p] = "failed" /\ remote_reads'[p] = remote_reads[p])]_vars

\* C19 witness: the embedded candidate did not match, the one re-fetch was
\* refused by the remote, and the construction failed with nothing returned.
C19_Witness ==
    /\ pc[1] = "failed"
    /\ failed_at[1] = "refetch"
    /\ source[1] = "embedded"
    /\ remote_kind[1] = "Err"
    /\ Refetches(1) = 1
    /\ ret[1] = None

\* C20 as stated: a step on which fetch_target returns an error leaves the
\* cache file as it was.
C20_FailureLeavesCache ==
    [][\A p \in Procs :
          (pc'[p] = "failed" /\ pc[p] \in {"remote", "validate", "refetch", "write"}) =>
              disk' = disk]_vars

\* C20, amended: when fetch_target fails because no source supplied data,
\* because the metadata has no entry for the name, or because the re-fetch
\* failed, the failing step leaves the cache file as it was, the
\* construction has written nothing, and a cached file that supplied the
\* candidate is still there with the same bytes.
C20_EarlyFailureLeavesCache ==
    [][\A p \in Procs :
          (pc'[p] = "failed" /\ pc[p] \in {"remote", "validate", "refetch"}) =>
              /\ disk' = disk
              /\ writes'[p] = 0
              /\ source'[p] = "cache" => disk' = candidate'[p]]_vars

\* C20 witness: a stale cached file supplied the candidate, the re-fetch
\* failed, and the file is still there.
C20_Witness ==
    /\ pc[1] = "failed"
    /\ failed_at[1] = "refetch"
    /\ source[1] = "cache"
    /\ IsSome(disk)
    /\ disk = candidate[1]
    /\ writes[1] = 0

\* ---------------------------------------------------------------------
\* Two constructions on one checkout directory. std::fs::write is not one
\* step for another caller: the file is created or truncated first and
\* filled afterwards, and the other construction may run in between.

\* The two callers.
Pair == {1, 2}

\* std::fs::write, first half: the file is created or truncated.
WriteCacheOpen(p) ==
    /\ pc[p] = "write"
    /\ checkout_dir # None
    /\ \E outcome \in {"create_failed", "write_failed"} :
          IF outcome = "create_failed"
          THEN /\ disk' = fs_write(disk, Unwrap(data[p]), "create_failed")
               /\ Fail(p, "IOError")
          ELSE /\ disk' = fs_write(disk, Unwrap(data[p]), "write_failed")
               /\ Goto(p, "writing")
    /\ UNCHANGED <<env_vars, aux_vars, now, tried, source, candidate, data, refetched, ret,
                   remote_kind, trusted_root, loads, remote_reads, writes, reply>>

\* Mutant: the bytes first read are written back, not the validated ones.
WriteCacheCloseCandidate(p) ==
    /\ pc[p] = "writing"
    /\ disk' = fs_write(disk, Unwrap(candidate[p]), "ok")
    /\ writes' = [writes EXCEPT ![p] = @ + 1]
    /\ ret' = [ret EXCEPT ![p] = data[p]]
    /\ Goto(p, "fetched")
    /\ UNCHANGED <<env_vars, aux_vars, now, tried, source, candidate, data, refetched, remote_kind,
                   trusted_root, loads, remote_reads, reply>>

\* std::fs::write, second half: write_all of the validated bytes, then
\* Ok(data); when write_all fails the file stays as it is at that moment.
WriteCacheClose(p) ==
    /\ pc[p] = "writing"
    /\ \E outcome \in {"ok", "write_failed"} :
          IF outcome = "ok"
          THEN /\ disk' = fs_write(disk, Unwrap(data[p]), "ok")
               /\ writes' = [writes EXCEPT ![p] = @ + 1]
               /\ ret' = [ret EXCEPT ![p] = data[p]]
               /\ Goto(p, "fetched")
          ELSE /\ disk' = disk
               /\ Fail(p, "IOError")
               /\ UNCHANGED <<writes, ret>>
    /\ UNCHANGED <<env_vars, aux_vars, now, tried, source, candidate, data, refetched, remote_kind,
                   trusted_root, loads, remote_reads, reply>>

ConcurrentStep(p) ==
    \/ New(p)
    \/ LoadRepository(p)
    \/ ReadCache(p)
    \/ ReadEmbedded(p)
    \/ ReadRemote(p)
    \/ Validate(p)
    \/ Refetch(p)
    \/ WriteCacheOpen(p)
    \/ WriteCacheClose(p)
    \/ Parse(p)

\* Both callers were given the same checkout directory and loaded the same
\* verified metadata, which has an entry for the name.
ConcurrentInit ==
    /\ Init
    /\ checkout_dir # None
    /\ targets_meta # None

ConcurrentNext == \E p \in Pair : ConcurrentStep(p)

ConcurrentSpec == ConcurrentInit /\ [][ConcurrentNext]_vars

\* C21: of two constructions interleaved on one checkout directory, each
\* whose fetch_target succeeded returned bytes that hash to the metadata
\* digest and parsed only those; and once both have succeeded the cache file
\* holds bytes with that digest.
C21_ConcurrentAuthentic ==
    /\ \A p \in Pair :
          /\ IsSome(ret[p]) => Authentic(Unwrap(ret[p]))
          /\ IsSome(trusted_root[p]) =>
                from_slice(Unwrap(ret[p])) = Ok(Unwrap(trusted_root[p]))
    /\ (\A p \in Pair : IsSome(ret[p])) =>
          (IsSome(disk) /\ Authentic(Unwrap(disk)))

\* C21 witness: both constructions succeeded although the second read the
\* cache file while the first, which had read other bytes from it, had
\* truncated it and not yet filled it.
C21_Witness ==
    /\ \A p \in Pair : IsSome(ret[p])
    /\ source[1] = "cache"
    /\ source[2] = "cache"
    /\ candidate[1] # candidate[2]
    /\ candidate[2] = Some(0)
    /\ ~Authentic(0)
    /\ IsSome(refetched[2])
    /\ writes[1] = 1
    /\ writes[2] = 1

\* ---------------------------------------------------------------------
\* Which log instances contribute to rekor_keys and ctfe_keys.

\* The instance has a public key and that key has raw bytes.
HasKeyBytes(log) ==
    IsSome(log.public_key) /\ IsSome(Unwrap(log.public_key).raw_bytes)

\* The document without the log instances that lack a key or its bytes.
WithoutBareInstances(root) ==
    [root EXCEPT !.tlogs = SelectSeq(@, HasKeyBytes),
                 !.ctlogs = SelectSeq(@, HasKeyBytes)]

\* Every returned item is the key of an instance of logs that has a public
\* key with raw bytes whose window passes the strict check at the time of
\* the query (the raw bytes of the i-th instance are i).
OnlyActiveKeysReturned(logs) ==
    \A i \in ReturnedItems :
        /\ i \in 1..Len(logs)
        /\ HasKeyBytes(logs[i])
        /\ isValid(Unwrap(logs[i].public_key).valid_for, FALSE, reply.at)

\* C22: an instance contributes to rekor_keys and ctfe_keys only if it has a
\* public key with raw bytes whose window passes the strict check; instances
\* without a key or without raw bytes are skipped silently: the answer is
\* the one the document without them gets, so they neither count toward
\* rekor_keys' exactly-one nor make ctfe_keys succeed.
C22_Contribution ==
    /\ Returned("rekor_keys") => OnlyActiveKeysReturned(Doc.tlogs)
    /\ Returned("ctfe_keys") => OnlyActiveKeysReturned(Doc.ctlogs)
    /\ reply.op = "rekor_keys" =>
          reply.result = rekor_keys(WithoutBareInstances(Doc), reply.at)
    /\ reply.op = "ctfe_keys" =>
          reply.result = ctfe_keys(WithoutBareInstances(Doc), reply.at)

\* C23: acceptance with allow_expired is monotone in time. Over every step,
\* a window of the document that is valid with allow_expired before the
\* step is valid after it; and when the latest query was a fulcio_certs
\* that succeeded, a fulcio_certs made now or later succeeds and returns
\* every certificate the earlier one returned.
C23_MonotoneAcceptance ==
    [][/\ \A range \in DocWindows :
             is_timerange_valid(range, TRUE, now) => is_timerange_valid(range, TRUE, now')
       /\ (Returned("fulcio_certs") /\ reply'.op = "fulcio_certs") =>
             /\ reply.at <= reply'.at
             /\ reply'.result.ok
             /\ ReturnedItems \subseteq Elems(Unwrap(reply'.result.val))]_vars

\* C23 witness: fulcio_certs returned the certificates of the only
\* authority after its window, which has a start, had ended.
C23_Witness ==
    /\ Returned("fulcio_certs")
    /\ Len(Doc.certificate_authorities) = 1
    /\ EndsBefore(Doc.certificate_authorities[1].valid_for, reply.at)
    /\ IsSome(Unwrap(Doc.certificate_authorities[1].valid_for).start)
    /\ ReturnedItems = Elems(ChainCerts(Doc.certificate_authorities[1]))
    /\ ReturnedItems # {}

====
